---- MODULE Spec2Model ----
(***************************************************************************)
(* A model of libdevcore/Log.cpp: the per-statement emit decision and      *)
(* prefix formatting of LogOutputStreamBase, the thread-local context      *)
(* stack, the thread-name registry and the default output sink.            *)
(*                                                                         *)
(* Strings are sequences of one-token strings, so that concatenation,      *)
(* truncation and "contains" are computed and not assumed.                 *)
(***************************************************************************)
EXTENDS Integers, Sequences, FiniteSets, TLC

(* ------------------------------ bounds -------------------------------- *)

\* Log statements begun in one run.
MaxStmts == 2

\* push and pop calls of one thread in one run.
MaxCtxOps == 4

(* ------------------------- program constants -------------------------- *)

\* int dev::g_logVerbosity = 5;
InitialVerbosity == 5

\* INT_MAX of the 32-bit int; an unsigned is kept as its top bit and its low
\* 31 bits, [hi, lo], standing for hi * 2^31 + lo.
IntMax == 2147483647

\* pthread_getname_np(pthread_self(), buffer, 127)
GetNameLen == 127

\* Linux: the name passed to pthread_setname_np is at most 15 characters
\* (16 with the terminating NUL), longer names are rejected with ERANGE.
LinuxNameMax == 15

\* Darwin: pthread_setname_np rejects names of more than 63 characters.
AppleNameMax == 63

(* ------------------------------ strings ------------------------------- *)

Fill(n, c) == [i \in 1..n |-> c]

Take(s, n) == IF Len(s) <= n THEN s ELSE SubSeq(s, 1, n)

IsPrefix(p, s) == Len(p) <= Len(s) /\ SubSeq(s, 1, Len(p)) = p

Contains(s, sub) ==
    \E i \in 0..(Len(s) - Len(sub)) : SubSeq(s, i + 1, i + Len(sub)) = sub

\* A null char const*.
NullPtr == <<"NULL">>

MainName == <<"m", "a", "i", "n">>

UnknownName == <<"<", "u", "n", "k", "n", "o", "w", "n", ">">>

\* The name the OS gives the threads of the process before any is named:
\* the executable's name on Linux, the empty string on Darwin.
ProcessName == <<"n", "s", "f", "m", "i", "n", "e", "r">>

Worker1 == <<"w", "o", "r", "k", "e", "r", "-", "1">>

\* The names setThreadName is called with: one that fits every platform, one
\* of 16 characters (over the Linux limit), one of 64 (over the Darwin limit).
Names == {Worker1, Fill(LinuxNameMax + 1, "x"), Fill(AppleNameMax + 1, "y")}

Labels == {<<"a">>, <<"b">>}

\* The separator the context-stack specification joins with.
Slash == <<"/">>

c_begin == <<" ", " ", "<violet>">>

c_sep1 == <<"<reset>", "<black>", "|", "<navy>">>

c_sep2 == <<"<reset>", "<black>", "|", "<teal>">>

c_end == <<"<reset>", " ", " ">>

\* strftime(buf, 24, "%X", ...) of the current time, when it succeeds.
TimeText == <<"1", "2", ":", "0", "0", ":", "0", "0">>

\* The text a caller streams into a statement.
Message == <<"m", "s", "g">>

(* ------------------------------ channels ------------------------------ *)

Channels == {"WarnChannel", "NoteChannel"}

\* XChannel::name(): a colour code and a three-column glyph.
ChannelName(ch) ==
    IF ch = "WarnChannel" THEN <<"<onred>", "<blackbold>", " ", " ", "X">>
    ELSE <<"<blue>", " ", " ", "i">>

\* The values of the unsigned _v a statement is constructed with.
Unsigned(hi, lo) == [hi |-> hi, lo |-> lo]

Verbosities == {Unsigned(0, 5), Unsigned(1, IntMax)}

\* The values the global threshold is set to.
Thresholds == {-1, 3}

\* (int)_v: the same 32 bits read as a signed int.
ToInt(u) == IF u.hi = 1 THEN u.lo - IntMax - 1 ELSE u.lo

Threads == {"main", "worker"}

\* The thread the external configuration code runs on.
Configurers == {"main"}

Platforms == {"linux", "apple", "other"}

Sinks == {"simpleDebugOut", "countingSink"}

(* ------------------------------- state -------------------------------- *)

VARIABLES
    platform,        \* which branch of the #if the build took
    g_logVerbosity,  \* dev::g_logVerbosity
    s_logOverride,   \* the override map: channel identity -> bool
    x_logOverride,   \* holder of the override mutex, or "free"
    s_lock,          \* holder of simpleDebugOut's spinlock, or "free"
    g_logPost,       \* the current sink
    cerr,            \* the error stream: who wrote a line's text or its end, in order
    pc,              \* where each thread is
    stmt,            \* each thread's log statement under construction
    ovArg,           \* each thread's pending override operation
    osName,          \* the OS's name of each thread (Linux, Darwin)
    tlsName,         \* ThreadLocalLogName::name of each thread
    logContexts,     \* the thread_local context vector of each thread
    ret,             \* what each thread's last getThreadName / join returned
    lastSet,         \* history: the argument of each thread's last setThreadName
    ctxHist,         \* history: each thread's push / pop calls, in order
    sinkCalls,       \* history: invocations of each sink
    emitDone,        \* history: completed statements that had decided to emit
    nStmts           \* history: statements begun

shared == <<g_logVerbosity, s_logOverride, x_logOverride, s_lock, g_logPost, cerr>>

stmtVars == <<pc, stmt, ovArg>>

nameVars == <<osName, tlsName, lastSet>>

ctxVars == <<logContexts, ctxHist>>

counters == <<sinkCalls, emitDone, nStmts>>

vars == <<platform, shared, stmtVars, nameVars, ctxVars, ret, counters>>

\* strftime's return value while the constructor has not called it.
NotCalled == -1

\* A statement's fields, the constructor's locals (strftime's return value
\* and buf) and its history: what the constructor has read, what was posted.
NoStmt ==
    [id |-> <<>>, info |-> "none", m_verbosity |-> Unsigned(0, 0), m_autospacing |-> FALSE,
     emit |-> FALSE, m_sstr |-> <<>>, posted |-> <<>>,
     strftime |-> NotCalled, buf |-> <<>>, reads |-> {}, it |-> "none"]

NoOp == [info |-> "none", op |-> "none", value |-> FALSE]

\* The OS name of a thread nobody has named.
DefaultOsName(p) == IF p = "linux" THEN ProcessName ELSE <<>>

Init ==
    /\ platform \in Platforms
    /\ g_logVerbosity = InitialVerbosity
    /\ s_logOverride = [k \in {} |-> TRUE]
    /\ x_logOverride = "free"
    /\ s_lock = "free"
    /\ g_logPost = "simpleDebugOut"
    /\ cerr = <<>>
    /\ pc = [t \in Threads |-> "idle"]
    /\ stmt = [t \in Threads |-> NoStmt]
    /\ ovArg = [t \in Threads |-> NoOp]
    /\ osName = [t \in Threads |-> DefaultOsName(platform)]
    \* ThreadLocalLogName g_logThreadName("main") runs on the initial thread;
    \* the thread_local pointer of every other thread starts null.
    /\ tlsName = [t \in Threads |-> IF t = "main" THEN MainName ELSE NullPtr]
    /\ logContexts = [t \in Threads |-> <<>>]
    /\ ret = [t \in Threads |-> <<>>]
    /\ lastSet = [t \in Threads |-> NullPtr]
    /\ ctxHist = [t \in Threads |-> <<>>]
    /\ sinkCalls = [s \in Sinks |-> 0]
    /\ emitDone = 0
    /\ nStmts = 0

(* ------------------------ thread-name registry ------------------------ *)

\* pthread_setname_np: the OS copies the name, or rejects one that is too long
\* and leaves the thread's name as it was.
OsSetName(old, n, p) ==
    IF Len(n) <= (IF p = "linux" THEN LinuxNameMax ELSE AppleNameMax) THEN n ELSE old

\* dev::getThreadName()
getThreadName(t) ==
    IF platform \in {"linux", "apple"}
    THEN Take(osName[t], GetNameLen)
    ELSE IF tlsName[t] # NullPtr THEN tlsName[t] ELSE UnknownName

\* dev::setThreadName(_n)
SetThreadName(t, n) ==
    /\ pc[t] = "idle"
    /\ IF platform \in {"linux", "apple"}
       THEN /\ osName' = [osName EXCEPT ![t] = OsSetName(@, n, platform)]
            /\ UNCHANGED tlsName
       ELSE /\ tlsName' = [tlsName EXCEPT ![t] = n]
            /\ UNCHANGED osName
    /\ lastSet' = [lastSet EXCEPT ![t] = n]
    /\ UNCHANGED <<platform, shared, stmtVars, ctxVars, ret, counters>>

\* A call of getThreadName() from outside a log statement.
GetThreadName(t) ==
    /\ pc[t] = "idle"
    /\ ret' = [ret EXCEPT ![t] = getThreadName(t)]
    /\ UNCHANGED <<platform, shared, stmtVars, nameVars, ctxVars, counters>>

(* --------------------------- context stack ---------------------------- *)

\* ThreadLocalLogContext::join: ret += _prior + i, for each entry in order.
RECURSIVE join(_, _)
join(ctx, prior) ==
    IF ctx = <<>> THEN <<>>
    ELSE join(SubSeq(ctx, 1, Len(ctx) - 1), prior) \o prior \o ctx[Len(ctx)]

\* logContexts.push_back(_name)
push_back(ctx, name) == Append(ctx, name)

\* A pop that removes the outermost entry instead of the innermost.
pop_front(ctx) == SubSeq(ctx, 2, Len(ctx))

\* logContexts.pop_back()
pop_back(ctx) == SubSeq(ctx, 1, Len(ctx) - 1)

\* push on a stack that is not thread_local: one vector for all threads.
PushShared(t, n) ==
    /\ pc[t] = "idle"
    /\ Len(ctxHist[t]) < MaxCtxOps
    /\ logContexts' = [u \in Threads |-> push_back(logContexts[u], n)]
    /\ ctxHist' = [ctxHist EXCEPT ![t] = Append(@, <<"push", n>>)]
    /\ UNCHANGED <<platform, shared, stmtVars, nameVars, ret, counters>>

\* dev::ThreadContext::push(_n)
Push(t, n) ==
    /\ pc[t] = "idle"
    /\ Len(ctxHist[t]) < MaxCtxOps
    /\ logContexts' = [logContexts EXCEPT ![t] = push_back(@, n)]
    /\ ctxHist' = [ctxHist EXCEPT ![t] = Append(@, <<"push", n>>)]
    /\ UNCHANGED <<platform, shared, stmtVars, nameVars, ret, counters>>

\* dev::ThreadContext::pop(); callers never pop an empty stack.
Pop(t) ==
    /\ pc[t] = "idle"
    /\ Len(ctxHist[t]) < MaxCtxOps
    /\ logContexts[t] # <<>>
    /\ logContexts' = [logContexts EXCEPT ![t] = pop_back(@)]
    /\ ctxHist' = [ctxHist EXCEPT ![t] = Append(@, <<"pop", <<>>>>)]
    /\ UNCHANGED <<platform, shared, stmtVars, nameVars, ret, counters>>

\* dev::ThreadContext::join(_prior), called from outside a log statement.
Join(t, prior) ==
    /\ pc[t] = "idle"
    /\ ret' = [ret EXCEPT ![t] = join(logContexts[t], prior)]
    /\ UNCHANGED <<platform, shared, stmtVars, nameVars, ctxVars, counters>>

(* --------------------------- log statement ---------------------------- *)

\* (unsigned)i: the same 32 bits read as an unsigned.
ToUnsigned(i) == IF i < 0 THEN Unsigned(1, i + IntMax + 1) ELSE Unsigned(0, i)

UnsignedLeq(u, w) == u.hi < w.hi \/ (u.hi = w.hi /\ u.lo <= w.lo)

\* The condition with the cast dropped, _v <= g_logVerbosity: the comparison
\* is then made on unsigned values.
ShouldEmitNoCast(map, info, v, verbosity) ==
    \/ (info \in DOMAIN map /\ map[info])
    \/ (info \notin DOMAIN map /\ UnsignedLeq(v, ToUnsigned(verbosity)))

\* The condition with it->second ignored: any entry forces the channel on.
ShouldEmitAnyEntry(map, info, v, verbosity) ==
    \/ info \in DOMAIN map
    \/ (info \notin DOMAIN map /\ ToInt(v) <= verbosity)

\* The condition of the constructor's if: the entry forces the channel on, or
\* there is no entry and (int)_v <= g_logVerbosity.
ShouldEmit(map, info, v, verbosity) ==
    \/ (info \in DOMAIN map /\ map[info])
    \/ (info \notin DOMAIN map /\ ToInt(v) <= verbosity)

\* The prefix with the thread name left out.
PrefixNoName(id, buf, name, ctx) ==
    id \o c_begin \o buf \o c_sep1 \o join(ctx, c_sep2) \o c_end

\* The prefix with the context path streamed before the thread name.
PrefixCtxFirst(id, buf, name, ctx) ==
    id \o c_begin \o buf \o c_sep1 \o join(ctx, c_sep2) \o name \o c_end

\* m_sstr << _id << c_begin << buf << c_sep1 << getThreadName()
\*        << ThreadContext::join(c_sep2) << c_end
Prefix(id, buf, name, ctx) ==
    id \o c_begin \o buf \o c_sep1 \o name \o join(ctx, c_sep2) \o c_end

\* A statement begins: LogOutputStreamBase(_id, _info, _v, _autospacing) is
\* entered and initialises m_autospacing and m_verbosity.
LogBegin(t, ch, v) ==
    /\ pc[t] = "idle"
    /\ nStmts < MaxStmts
    /\ nStmts' = nStmts + 1
    /\ stmt' = [stmt EXCEPT ![t] =
                 [id |-> ChannelName(ch), info |-> ch, m_verbosity |-> v,
                  m_autospacing |-> TRUE, emit |-> FALSE, m_sstr |-> <<>>,
                  posted |-> <<>>, strftime |-> NotCalled, buf |-> <<>>,
                  reads |-> {}, it |-> "none"]]
    /\ pc' = [pc EXCEPT ![t] = "ctor_lock"]
    /\ UNCHANGED <<platform, shared, ovArg, nameVars, ctxVars, ret,
                   sinkCalls, emitDone>>

\* The lookup and the test made without the Guard.
CtorDecideNoGuard(t) ==
    /\ pc[t] = "ctor_lock"
    /\ LET e == ShouldEmit(s_logOverride, stmt[t].info, stmt[t].m_verbosity,
                           g_logVerbosity)
       IN /\ stmt' = [stmt EXCEPT ![t].emit = e]
          /\ pc' = [pc EXCEPT ![t] = IF e THEN "ctor_fmt" ELSE "ctor_end"]
    /\ UNCHANGED <<platform, shared, ovArg, nameVars, ctxVars, ret, counters>>

\* The constructor with the formatting moved out of the if: the prefix is
\* built whatever the decision is.
CtorDecideAlwaysFormat(t) ==
    /\ pc[t] = "ctor_lock"
    /\ x_logOverride = "free"
    /\ x_logOverride' = t
    /\ LET e == ShouldEmit(s_logOverride, stmt[t].info, stmt[t].m_verbosity,
                           g_logVerbosity)
       IN /\ stmt' = [stmt EXCEPT ![t].emit = e]
          /\ pc' = [pc EXCEPT ![t] = "ctor_fmt"]
    /\ UNCHANGED <<platform, g_logVerbosity, s_logOverride, s_lock, g_logPost, cerr,
                   ovArg, nameVars, ctxVars, ret, counters>>

\* Guard l(x_logOverride); auto it = s_logOverride.find(_info); if (...)
\* The thread waits for the mutex, takes it, looks the channel up and tests
\* the condition, all before any other thread can touch the map.
CtorDecide(t) ==
    /\ pc[t] = "ctor_lock"
    /\ x_logOverride = "free"
    /\ x_logOverride' = t
    /\ LET e == ShouldEmit(s_logOverride, stmt[t].info, stmt[t].m_verbosity,
                           g_logVerbosity)
       IN /\ stmt' = [stmt EXCEPT ![t].emit = e]
          /\ pc' = [pc EXCEPT ![t] = IF e THEN "ctor_fmt" ELSE "ctor_end"]
    /\ UNCHANGED <<platform, g_logVerbosity, s_logOverride, s_lock, g_logPost, cerr,
                   ovArg, nameVars, ctxVars, ret, counters>>

\* The constructor's first three statements taken one at a time. CtorDecide
\* above takes them in one step, which is sound as long as nothing can touch
\* the table between the lock and the test.

\* The constructor going on to the lookup without taking the mutex.
CtorLockNoGuard(t) ==
    /\ pc[t] = "ctor_lock"
    /\ pc' = [pc EXCEPT ![t] = "ctor_find"]
    /\ UNCHANGED <<platform, shared, stmt, ovArg, nameVars, ctxVars, ret, counters>>

\* Guard l(x_logOverride);
CtorLock(t) ==
    /\ pc[t] = "ctor_lock"
    /\ x_logOverride = "free"
    /\ x_logOverride' = t
    /\ pc' = [pc EXCEPT ![t] = "ctor_find"]
    /\ UNCHANGED <<platform, g_logVerbosity, s_logOverride, s_lock, g_logPost, cerr,
                   stmt, ovArg, nameVars, ctxVars, ret, counters>>

\* auto it = s_logOverride.find(_info);
CtorFind(t) ==
    /\ pc[t] = "ctor_find"
    /\ stmt' = [stmt EXCEPT ![t].it =
                 IF stmt[t].info \in DOMAIN s_logOverride THEN stmt[t].info ELSE "end"]
    /\ pc' = [pc EXCEPT ![t] = "ctor_test"]
    /\ UNCHANGED <<platform, shared, ovArg, nameVars, ctxVars, ret, counters>>

\* What it->second reads: the entry's value, or anything at all when the
\* entry it points to has been erased since the lookup.
Second(map, it) == IF it \in DOMAIN map THEN {map[it]} ELSE BOOLEAN

\* (it != s_logOverride.end() && it->second) ||
\* (it == s_logOverride.end() && (int)_v <= g_logVerbosity)
Condition(it, second, v, verbosity) ==
    \/ (it # "end" /\ second)
    \/ (it = "end" /\ ToInt(v) <= verbosity)

\* if (...): the condition is evaluated on the iterator and on the threshold
\* as it is now.
CtorTest(t) ==
    /\ pc[t] = "ctor_test"
    /\ \E second \in Second(s_logOverride, stmt[t].it) :
         LET e == Condition(stmt[t].it, second, stmt[t].m_verbosity, g_logVerbosity)
         IN /\ stmt' = [stmt EXCEPT ![t].emit = e, ![t].it = "none"]
            /\ pc' = [pc EXCEPT ![t] = IF e THEN "ctor_fmt" ELSE "ctor_end"]
    /\ UNCHANGED <<platform, shared, ovArg, nameVars, ctxVars, ret, counters>>

\* The values strftime returns: 0 when it fails, else the length written.
StrftimeResults == {0, Len(TimeText)}

\* What strftime leaves in buf when it fails: the contents are undefined.
Garbage == <<"?">>

\* buf with the reset after a failed strftime left out.
TimeFieldNoReset(n) == IF n = 0 THEN Garbage ELSE TimeText

\* buf after  if (strftime(buf, 24, "%X", ...) == 0) buf[0] = '\0';
TimeField(n) == IF n = 0 THEN <<>> ELSE TimeText

\* Formatting with a join that takes the entries off the stack as it walks it.
CtorFormatConsume(t) ==
    /\ pc[t] = "ctor_fmt"
    /\ \E n \in StrftimeResults :
         stmt' = [stmt EXCEPT
                    ![t].strftime = n,
                    ![t].buf = TimeField(n),
                    ![t].reads = {"clock", "getThreadName", "join"},
                    ![t].m_sstr = Prefix(stmt[t].id, TimeField(n),
                                         getThreadName(t), logContexts[t])]
    /\ logContexts' = [logContexts EXCEPT ![t] = <<>>]
    /\ pc' = [pc EXCEPT ![t] = "ctor_end"]
    /\ UNCHANGED <<platform, shared, ovArg, nameVars, ctxHist, ret, counters>>

\* The body of the if: the clock is read, strftime formats it into buf (and
\* a failure leaves buf empty), then the prefix is streamed into m_sstr.
CtorFormat(t) ==
    /\ pc[t] = "ctor_fmt"
    /\ \E n \in StrftimeResults :
         stmt' = [stmt EXCEPT
                    ![t].strftime = n,
                    ![t].buf = TimeField(n),
                    ![t].reads = {"clock", "getThreadName", "join"},
                    ![t].m_sstr = Prefix(stmt[t].id, TimeField(n),
                                         getThreadName(t), logContexts[t])]
    /\ pc' = [pc EXCEPT ![t] = "ctor_end"]
    /\ UNCHANGED <<platform, shared, ovArg, nameVars, ctxVars, ret, counters>>

\* The constructor returning with x_logOverride still locked, as after a
\* bare lock() with no unlock on this path.
CtorReturnLocked(t) ==
    /\ pc[t] = "ctor_end"
    /\ pc' = [pc EXCEPT ![t] = "dtor"]
    /\ UNCHANGED <<platform, shared, stmt, ovArg, nameVars, ctxVars, ret, counters>>

\* The constructor returns: l goes out of scope and unlocks x_logOverride.
CtorUnlock(t) ==
    /\ pc[t] = "ctor_end"
    /\ x_logOverride' = "free"
    /\ pc' = [pc EXCEPT ![t] = "dtor"]
    /\ UNCHANGED <<platform, g_logVerbosity, s_logOverride, s_lock, g_logPost, cerr,
                   stmt, ovArg, nameVars, ctxVars, ret, counters>>

\* Completion that tests the channel's verbosity against the threshold again
\* instead of using the constructor's decision.
CompleteRecheck(t) ==
    /\ pc[t] = "dtor"
    /\ IF ToInt(stmt[t].m_verbosity) <= g_logVerbosity
       THEN /\ stmt' = [stmt EXCEPT
                          ![t].posted =
                             Append(@, [line |-> stmt[t].m_sstr \o Message,
                                        tag |-> stmt[t].id, sink |-> g_logPost])]
            /\ sinkCalls' = [sinkCalls EXCEPT ![g_logPost] = @ + 1]
            /\ IF g_logPost = "simpleDebugOut"
               THEN /\ pc' = [pc EXCEPT ![t] = "sink_lock"]
                    /\ UNCHANGED emitDone
               ELSE /\ pc' = [pc EXCEPT ![t] = "done"]
                    /\ emitDone' = emitDone + (IF stmt[t].emit THEN 1 ELSE 0)
       ELSE /\ pc' = [pc EXCEPT ![t] = "done"]
            /\ UNCHANGED <<stmt, sinkCalls, emitDone>>
    /\ UNCHANGED <<platform, shared, ovArg, nameVars, ctxVars, ret, nStmts>>

\* The caller streams the message text into a statement that emits, and the
\* statement completes: one that decided to emit hands the composed string
\* and the raw channel id to the current sink; the counting sink returns at
\* once, simpleDebugOut is entered.
Complete(t) ==
    /\ pc[t] = "dtor"
    /\ IF stmt[t].emit
       THEN /\ stmt' = [stmt EXCEPT
                          ![t].m_sstr = @ \o Message,
                          ![t].posted =
                             Append(@, [line |-> stmt[t].m_sstr \o Message,
                                        tag |-> stmt[t].id, sink |-> g_logPost])]
            /\ sinkCalls' = [sinkCalls EXCEPT ![g_logPost] = @ + 1]
            /\ IF g_logPost = "simpleDebugOut"
               THEN /\ pc' = [pc EXCEPT ![t] = "sink_lock"]
                    /\ UNCHANGED emitDone
               ELSE /\ pc' = [pc EXCEPT ![t] = "done"]
                    /\ emitDone' = emitDone + 1
       ELSE /\ pc' = [pc EXCEPT ![t] = "done"]
            /\ UNCHANGED <<stmt, sinkCalls, emitDone>>
    /\ UNCHANGED <<platform, shared, ovArg, nameVars, ctxVars, ret, nStmts>>

\* The statement's scope ends.
StmtEnd(t) ==
    /\ pc[t] = "done"
    /\ stmt' = [stmt EXCEPT ![t] = NoStmt]
    /\ pc' = [pc EXCEPT ![t] = "idle"]
    /\ UNCHANGED <<platform, shared, ovArg, nameVars, ctxVars, ret, counters>>

(* ---------------------------- default sink ---------------------------- *)

\* simpleDebugOut entered without the SpinGuard: the thread goes on to write
\* without waiting for, or taking, the spinlock.
SinkNoLock(t) ==
    /\ pc[t] = "sink_lock"
    /\ pc' = [pc EXCEPT ![t] = "sink_text"]
    /\ UNCHANGED <<platform, shared, stmt, ovArg, nameVars, ctxVars, ret, counters>>

\* SpinGuard l(s_lock);
SinkLock(t) ==
    /\ pc[t] = "sink_lock"
    /\ s_lock = "free"
    /\ s_lock' = t
    /\ pc' = [pc EXCEPT ![t] = "sink_text"]
    /\ UNCHANGED <<platform, g_logVerbosity, s_logOverride, x_logOverride, g_logPost,
                   cerr, stmt, ovArg, nameVars, ctxVars, ret, counters>>

\* cerr << _s
SinkText(t) ==
    /\ pc[t] = "sink_text"
    /\ cerr' = Append(cerr, [th |-> t, kind |-> "text"])
    /\ pc' = [pc EXCEPT ![t] = "sink_endl"]
    /\ UNCHANGED <<platform, g_logVerbosity, s_logOverride, x_logOverride, s_lock,
                   g_logPost, stmt, ovArg, nameVars, ctxVars, ret, counters>>

\* simpleDebugOut returning with the spinlock still locked.
SinkEndlNoUnlock(t) ==
    /\ pc[t] = "sink_endl"
    /\ cerr' = Append(cerr, [th |-> t, kind |-> "endl"])
    /\ pc' = [pc EXCEPT ![t] = "done"]
    /\ emitDone' = emitDone + 1
    /\ UNCHANGED <<platform, g_logVerbosity, s_logOverride, x_logOverride, s_lock,
                   g_logPost, stmt, ovArg, nameVars, ctxVars, ret, sinkCalls, nStmts>>

\* << endl << flush; then simpleDebugOut returns: l goes out of scope and
\* unlocks s_lock, and the statement is complete.
SinkEndl(t) ==
    /\ pc[t] = "sink_endl"
    /\ cerr' = Append(cerr, [th |-> t, kind |-> "endl"])
    /\ s_lock' = "free"
    /\ pc' = [pc EXCEPT ![t] = "done"]
    /\ emitDone' = emitDone + 1
    /\ UNCHANGED <<platform, g_logVerbosity, s_logOverride, x_logOverride, g_logPost,
                   stmt, ovArg, nameVars, ctxVars, ret, sinkCalls, nStmts>>

(* --------------------------- configuration ---------------------------- *)

\* override(channelKind, enabled) or clearOverride(channelKind) is called.
OverrideBegin(t, ch, op, b) ==
    /\ pc[t] = "idle"
    /\ ovArg' = [ovArg EXCEPT ![t] = [info |-> ch, op |-> op, value |-> b]]
    /\ pc' = [pc EXCEPT ![t] = "ov_lock"]
    /\ UNCHANGED <<platform, shared, stmt, nameVars, ctxVars, ret, counters>>

\* The operation locks the override mutex.
OverrideLock(t) ==
    /\ pc[t] = "ov_lock"
    /\ x_logOverride = "free"
    /\ x_logOverride' = t
    /\ pc' = [pc EXCEPT ![t] = "ov_write"]
    /\ UNCHANGED <<platform, g_logVerbosity, s_logOverride, s_lock, g_logPost, cerr,
                   stmt, ovArg, nameVars, ctxVars, ret, counters>>

MapSet(map, k, b) == [x \in DOMAIN map \cup {k} |-> IF x = k THEN b ELSE map[x]]

MapErase(map, k) == [x \in DOMAIN map \ {k} |-> map[x]]

\* The entry is installed, replaced or removed, and the mutex unlocked.
OverrideWrite(t) ==
    /\ pc[t] = "ov_write"
    /\ s_logOverride' = IF ovArg[t].op = "override"
                        THEN MapSet(s_logOverride, ovArg[t].info, ovArg[t].value)
                        ELSE MapErase(s_logOverride, ovArg[t].info)
    /\ x_logOverride' = "free"
    /\ ovArg' = [ovArg EXCEPT ![t] = NoOp]
    /\ pc' = [pc EXCEPT ![t] = "idle"]
    /\ UNCHANGED <<platform, g_logVerbosity, s_lock, g_logPost, cerr, stmt,
                   nameVars, ctxVars, ret, counters>>

\* External configuration assigns dev::g_logVerbosity, with no lock.
SetVerbosity(t, v) ==
    /\ pc[t] = "idle"
    /\ v # g_logVerbosity
    /\ g_logVerbosity' = v
    /\ UNCHANGED <<platform, s_logOverride, x_logOverride, s_lock, g_logPost, cerr,
                   stmtVars, nameVars, ctxVars, ret, counters>>

\* External code assigns dev::g_logPost. The assignment is not synchronised
\* with calls of the sink, so it is made before any logging begins.
SetSink(t, s) ==
    /\ pc[t] = "idle"
    /\ nStmts = 0
    /\ s # g_logPost
    /\ g_logPost' = s
    /\ UNCHANGED <<platform, g_logVerbosity, s_logOverride, x_logOverride, s_lock, cerr,
                   stmtVars, nameVars, ctxVars, ret, counters>>

(* --------------------------- specifications --------------------------- *)

\* The pipeline: threads log through either sink while the configuration
\* thread reconfigures.
Next ==
    \/ \E t \in Threads :
        \/ \E ch \in Channels, v \in Verbosities : LogBegin(t, ch, v)
        \/ CtorDecide(t)
        \/ CtorFormat(t)
        \/ CtorUnlock(t)
        \/ Complete(t)
        \/ StmtEnd(t)
        \/ SinkLock(t)
        \/ SinkText(t)
        \/ SinkEndl(t)
        \/ OverrideLock(t)
        \/ OverrideWrite(t)
    \/ \E t \in Configurers :
        \/ \E ch \in Channels, b \in BOOLEAN : OverrideBegin(t, ch, "override", b)
        \/ \E ch \in Channels : OverrideBegin(t, ch, "clearOverride", FALSE)
        \/ \E v \in Thresholds \cup {InitialVerbosity} : SetVerbosity(t, v)
        \/ \E s \in Sinks : SetSink(t, s)

Spec == Init /\ [][Next]_vars

\* The context stack alone: every thread pushes, pops and joins.
NextCtx ==
    \E t \in Threads :
        \/ \E n \in Labels : Push(t, n)
        \/ Pop(t)
        \/ Join(t, Slash)

\* The context stack is the same code on every platform.
InitCtx == Init /\ platform = "linux"

SpecCtx == InitCtx /\ [][NextCtx]_vars

\* The thread-name registry alone, on every platform.
NextName ==
    \E t \in Threads :
        \/ \E n \in Names : SetThreadName(t, n)
        \/ GetThreadName(t)

SpecName == Init /\ [][NextName]_vars

\* The threads that log in the specifications of the per-thread state.
Loggers == Threads \ Configurers

\* Formatting: the logging thread pushes and pops labels, names itself and
\* logs, while the configuration thread changes the threshold.
NextFmt ==
    \/ \E t \in Loggers :
        \/ \E n \in Labels : Push(t, n)
        \/ Pop(t)
        \/ SetThreadName(t, Worker1)
        \/ \E ch \in Channels, v \in Verbosities : LogBegin(t, ch, v)
        \/ CtorDecide(t)
        \/ CtorFormat(t)
        \/ CtorUnlock(t)
        \/ Complete(t)
        \/ StmtEnd(t)
        \/ SinkLock(t)
        \/ SinkText(t)
        \/ SinkEndl(t)
    \/ \E t \in Configurers :
        \E v \in Thresholds \cup {InitialVerbosity} : SetVerbosity(t, v)

SpecFmt == Init /\ [][NextFmt]_vars

\* The lookup step by step: every thread logs, its constructor taking the
\* lock, the lookup and the test as separate steps, while the configuration
\* thread changes the table and the threshold.
NextSnap ==
    \/ \E t \in Threads :
        \/ \E ch \in Channels, v \in Verbosities : LogBegin(t, ch, v)
        \/ CtorLock(t)
        \/ CtorFind(t)
        \/ CtorTest(t)
        \/ CtorFormat(t)
        \/ CtorUnlock(t)
        \/ Complete(t)
        \/ StmtEnd(t)
        \/ SinkLock(t)
        \/ SinkText(t)
        \/ SinkEndl(t)
        \/ OverrideLock(t)
        \/ OverrideWrite(t)
    \/ \E t \in Configurers :
        \/ \E ch \in Channels, b \in BOOLEAN : OverrideBegin(t, ch, "override", b)
        \/ \E ch \in Channels : OverrideBegin(t, ch, "clearOverride", FALSE)
        \/ \E v \in Thresholds \cup {InitialVerbosity} : SetVerbosity(t, v)

SpecSnap == InitCtx /\ [][NextSnap]_vars

\* The labels a thread pushes in the specification of the thread-local
\* stacks: the configuration thread's label is one no logging thread pushes.
LabelsOf(t) == IF t \in Loggers THEN Labels ELSE {<<"z">>}

\* Thread-local stacks: every thread pushes and pops its own labels while
\* the logging thread logs.
NextTls ==
    \/ \E t \in Threads :
        \/ \E n \in LabelsOf(t) : Push(t, n)
        \/ Pop(t)
    \/ \E t \in Loggers :
        \/ LogBegin(t, "NoteChannel", Unsigned(0, InitialVerbosity))
        \/ CtorDecide(t)
        \/ CtorFormat(t)
        \/ CtorUnlock(t)
        \/ Complete(t)
        \/ StmtEnd(t)
        \/ SinkLock(t)
        \/ SinkText(t)
        \/ SinkEndl(t)

SpecTls == InitCtx /\ [][NextTls]_vars

(* ------------------------------- claims ------------------------------- *)

\* The step in which thread t's constructor looks the channel up and decides.
Decides(t) == pc[t] = "ctor_lock" /\ pc'[t] \in {"ctor_fmt", "ctor_end"}

\* C1: whenever a constructor decides while the override table has no entry
\* for its channel, it decides to emit exactly when (int)C <= V, for the
\* threshold V of that moment, negative or not.
C1_ThresholdRule ==
    [][\A t \in Threads :
          (Decides(t) /\ stmt[t].info \notin DOMAIN s_logOverride)
             => (stmt'[t].emit <=> ToInt(stmt[t].m_verbosity) <= g_logVerbosity)]_vars

\* C1 witness: a statement has decided to emit by the threshold rule under a
\* negative threshold.
C1_Witness ==
    \E t \in Threads :
        /\ pc[t] = "ctor_fmt"
        /\ stmt[t].emit
        /\ stmt[t].info \notin DOMAIN s_logOverride
        /\ g_logVerbosity < 0
        /\ ToInt(stmt[t].m_verbosity) <= g_logVerbosity

\* C2: whatever override, clearOverride and verbosity operations came before,
\* a constructor that finds the entry true decides to emit, one that finds it
\* false decides to suppress, and one that finds no entry (never set, or
\* removed by clearOverride) decides by the threshold rule.
C2_OverrideRule ==
    [][\A t \in Threads :
          Decides(t) =>
             LET ch == stmt[t].info
             IN IF ch \in DOMAIN s_logOverride
                THEN stmt'[t].emit = s_logOverride[ch]
                ELSE stmt'[t].emit <=> ToInt(stmt[t].m_verbosity) <= g_logVerbosity]_vars

\* C2 witness: thread u's completed statement on channel ch was suppressed
\* although its verbosity is below every threshold, so it found the entry
\* false; the entry is gone since, and thread t's statement on ch has then
\* decided to emit by the threshold rule.
C2_Witness ==
    \E t \in Configurers, u \in Threads \ Configurers, ch \in Channels :
        /\ ch \notin DOMAIN s_logOverride
        /\ pc[u] = "done" /\ stmt[u].info = ch /\ ~stmt[u].emit
        /\ ToInt(stmt[u].m_verbosity) < 0
        /\ pc[t] = "ctor_fmt" /\ stmt[t].info = ch /\ stmt[t].emit
        /\ ToInt(stmt[t].m_verbosity) <= g_logVerbosity

\* Threads inside a call of the default sink.
InDefaultSink == {t \in Threads : pc[t] \in {"sink_lock", "sink_text", "sink_endl"}}

TotalSinkCalls == sinkCalls["simpleDebugOut"] + sinkCalls["countingSink"]

\* C3: a statement that decided to suppress has invoked no sink, and the
\* number of sink invocations is the number of completed statements that
\* decided to emit plus the invocations still running.
C3_SuppressedNeverPosts ==
    /\ \A t \in Threads : ~stmt[t].emit => stmt[t].posted = <<>>
    /\ TotalSinkCalls = emitDone + Cardinality(InDefaultSink)

\* C3 witness: with the counting sink installed, one statement has completed
\* suppressed and one has completed emitting, and the sink counted one call.
C3_Witness ==
    /\ \E t \in Threads : pc[t] = "done" /\ ~stmt[t].emit
    /\ \E t \in Threads : pc[t] = "done" /\ stmt[t].emit
    /\ sinkCalls["countingSink"] = 1
    /\ sinkCalls["simpleDebugOut"] = 0
    /\ emitDone = 1

\* C4: no sink call is made before completion; at completion the sink has
\* been called once if the constructor decided to emit and not at all
\* otherwise, whatever the configuration is by then; the call carries the
\* composed string and the raw channel id, and that line is not empty and
\* contains the channel id and the calling thread's name.
C4_PostedOnceAtCompletion ==
    \A t \in Threads :
        /\ pc[t] \in {"ctor_lock", "ctor_fmt", "ctor_end", "dtor"} => stmt[t].posted = <<>>
        /\ Len(stmt[t].posted) <= 1
        /\ pc[t] = "done" =>
             /\ Len(stmt[t].posted) = (IF stmt[t].emit THEN 1 ELSE 0)
             /\ stmt[t].emit =>
                  LET call == stmt[t].posted[1]
                  IN /\ call.line = stmt[t].m_sstr
                     /\ call.tag = stmt[t].id
                     /\ call.line # <<>>
                     /\ Contains(call.line, stmt[t].id)
                     /\ Contains(call.line, getThreadName(t))

\* C4 witness: the configuring thread's own statement, of verbosity 5 under
\* threshold 3, was emitted by an override set to true and posted once; the
\* other thread's statement of verbosity 5 was posted once too, although by
\* its completion the threshold is 3 and no override forces its channel on.
C4_Witness ==
    \E t \in Configurers, u \in Threads \ Configurers :
        /\ g_logVerbosity = 3
        /\ pc[t] = "done" /\ stmt[t].emit /\ Len(stmt[t].posted) = 1
        /\ ToInt(stmt[t].m_verbosity) = 5
        /\ stmt[t].info \in DOMAIN s_logOverride /\ s_logOverride[stmt[t].info]
        /\ pc[u] = "done" /\ stmt[u].emit /\ Len(stmt[u].posted) = 1
        /\ ToInt(stmt[u].m_verbosity) = 5
        /\ stmt[u].info \notin DOMAIN s_logOverride
        /\ getThreadName(u) # <<>>

\* The pushes and the pops among entries i+1..j of a history.
Pushes(h, i, j) == Cardinality({k \in (i + 1)..j : h[k][1] = "push"})

Pops(h, i, j) == Cardinality({k \in (i + 1)..j : h[k][1] = "pop"})

\* Entry i of history h is a push that no later pop has removed: each pop
\* removes the most recently pushed label that remains, so the push at i
\* remains as long as no stretch after it holds more pops than pushes.
Remains(h, i) ==
    /\ h[i][1] = "push"
    /\ \A j \in (i + 1)..Len(h) : Pops(h, i, j) <= Pushes(h, i, j)

\* sep followed by each remaining label of entries 1..n of h, oldest first.
RECURSIVE ExpectedUpTo(_, _, _)
ExpectedUpTo(h, n, sep) ==
    IF n = 0 THEN <<>>
    ELSE ExpectedUpTo(h, n - 1, sep) \o (IF Remains(h, n) THEN sep \o h[n][2] ELSE <<>>)

ExpectedJoin(h, sep) == ExpectedUpTo(h, Len(h), sep)

\* C5: after any sequence of push and pop on a thread that never pops an
\* empty stack, join(sep) is sep followed by each label pushed and not yet
\* popped, outermost first, and what a call of join returned is that value
\* for the history up to the call.
C5_JoinIsRemainingLabels ==
    \A t \in Threads :
        /\ join(logContexts[t], Slash) = ExpectedJoin(ctxHist[t], Slash)
        /\ \E k \in 0..Len(ctxHist[t]) :
              ret[t] = ExpectedJoin(SubSeq(ctxHist[t], 1, k), Slash)

\* C5 witness: after push("a"), push("b"), pop() a thread has called
\* join("/") and got "/a".
C5_Witness ==
    \E t \in Threads :
        /\ ctxHist[t] = <<<<"push", <<"a">>>>, <<"push", <<"b">>>>, <<"pop", <<>>>>>>
        /\ ret[t] = <<"/", "a">>
        /\ join(logContexts[t], Slash) = ret[t]

\* The complete lines in the error stream: a line's end that directly follows
\* a text written by the same thread.
CompleteLines ==
    {i \in 2..Len(cerr) :
        cerr[i].kind = "endl" /\ cerr[i - 1].kind = "text" /\ cerr[i - 1].th = cerr[i].th}

\* C6: at most one thread is between taking and releasing the sink's
\* spinlock; every text in the error stream is directly followed by its own
\* thread's line end, except the text the lock holder has just written; and
\* the stream holds one complete line for every call of the default sink that
\* has returned, so N threads that log L lines each leave N*L lines.
C6_LinesNotInterleaved ==
    /\ \A t, u \in Threads :
          (pc[t] \in {"sink_text", "sink_endl"} /\ pc[u] \in {"sink_text", "sink_endl"})
             => t = u
    /\ \A t \in Threads : pc[t] \in {"sink_text", "sink_endl"} <=> s_lock = t
    /\ \A i \in 1..Len(cerr) :
          IF cerr[i].kind = "text"
          THEN IF i < Len(cerr)
               THEN cerr[i + 1] = [th |-> cerr[i].th, kind |-> "endl"]
               ELSE pc[cerr[i].th] = "sink_endl"
          ELSE i \in CompleteLines
    /\ Cardinality(CompleteLines) = sinkCalls["simpleDebugOut"] - Cardinality(InDefaultSink)
    /\ (\A t \in Threads : pc[t] = "idle") =>
          Len(cerr) = 2 * sinkCalls["simpleDebugOut"]

\* C6 witness: one thread has written its text and holds the spinlock while
\* another thread's call of the default sink waits for it.
C6_Witness ==
    \E t, u \in Threads :
        /\ pc[t] = "sink_endl" /\ s_lock = t
        /\ pc[u] = "sink_lock"
        /\ cerr # <<>> /\ cerr[Len(cerr)] = [th |-> t, kind |-> "text"]

\* C7 as claimed: once a thread has called setThreadName(n), getThreadName()
\* on that thread returns n or a prefix of n, whatever the length of n.
C7_Claim ==
    \A t \in Threads :
        lastSet[t] # NullPtr => IsPrefix(getThreadName(t), lastSet[t])

\* C8 as claimed: a thread that has never called setThreadName is named
\* "main" if it is the initial thread and "<unknown>" otherwise, and
\* setThreadName on one thread leaves the name of every other thread alone.
C8_Claim ==
    /\ [](\A t \in Threads :
            lastSet[t] = NullPtr =>
               getThreadName(t) = (IF t = "main" THEN MainName ELSE UnknownName))
    /\ [][\A t, u \in Threads :
            (lastSet'[t] # lastSet[t] /\ u # t) => getThreadName(u)' = getThreadName(u)]_vars

\* C9 as claimed: a thread that is formatting the prefix of its statement no
\* longer holds the override mutex.
C9_Claim == \A t \in Threads : pc[t] = "ctor_fmt" => x_logOverride # t

\* A step that continues an operation already begun.
Continue ==
    \E t \in Threads :
        \/ CtorDecide(t) \/ CtorFormat(t) \/ CtorUnlock(t) \/ Complete(t) \/ StmtEnd(t)
        \/ SinkLock(t) \/ SinkText(t) \/ SinkEndl(t)
        \/ OverrideLock(t) \/ OverrideWrite(t)

\* C10: a thread is past the lookup of its constructor, or about to write the
\* table, exactly while it holds the override mutex; a thread that holds
\* either lock is not requesting a lock, and no thread holds both; so as
\* long as some operation is unfinished some thread can take a step.
C10_NoLockNesting ==
    /\ \A t \in Threads : pc[t] \in {"ctor_fmt", "ctor_end", "ov_write"} <=> x_logOverride = t
    /\ \A t \in Threads :
          (x_logOverride = t \/ s_lock = t) => pc[t] \notin {"ctor_lock", "ov_lock", "sink_lock"}
    /\ \A t \in Threads : ~(x_logOverride = t /\ s_lock = t)
    /\ (\E t \in Threads : pc[t] # "idle") => ENABLED Continue

\* C10 witness: a logging thread waits for the override mutex, which an
\* override writer holds, while nobody holds the spinlock.
C10_Witness ==
    \E t, u \in Threads :
        /\ pc[t] = "ctor_lock"
        /\ pc[u] = "ov_write" /\ x_logOverride = u
        /\ s_lock = "free"

\* C13: a statement that decided to suppress never enters the formatting
\* branch: from the decision until its scope ends its prefix buffer is empty,
\* strftime was not called, and neither the clock, the thread name nor the
\* context stack was read; only a statement that emits is ever formatting.
C13_SuppressDoesNoFormatting ==
    \A t \in Threads :
        /\ pc[t] = "ctor_fmt" => stmt[t].emit
        /\ (pc[t] \in {"ctor_end", "dtor", "done"} /\ ~stmt[t].emit) =>
              /\ stmt[t].m_sstr = <<>>
              /\ stmt[t].reads = {}
              /\ stmt[t].strftime = NotCalled
              /\ stmt[t].buf = <<>>

\* C13 witness: one thread's constructor has returned with the decision to
\* suppress and an empty buffer, while another thread's statement, which
\* emits, has been formatted.
C13_Witness ==
    \E t, u \in Threads :
        /\ pc[t] = "dtor" /\ ~stmt[t].emit /\ stmt[t].m_sstr = <<>>
        /\ pc[u] = "dtor" /\ stmt[u].emit /\ stmt[u].reads # {}

\* The labels thread t has pushed so far.
PushedBy(t) ==
    {ctxHist[t][k][2] : k \in {i \in 1..Len(ctxHist[t]) : ctxHist[t][i][1] = "push"}}

\* C11: a push or pop of one thread leaves the stack of every other thread
\* as it was, and the line a thread has logged holds, as its context path,
\* the labels that thread itself pushed and has not popped, and no label
\* that only another thread pushed.
C11_StacksPerThread ==
    /\ [][\A t, u \in Threads :
            (u # t /\ ctxHist'[t] # ctxHist[t]) => logContexts'[u] = logContexts[u]]_vars
    /\ [](\A t \in Threads :
            stmt[t].posted # <<>> =>
               LET line == stmt[t].posted[1].line
               IN /\ line = stmt[t].id \o c_begin \o stmt[t].buf \o c_sep1
                             \o getThreadName(t)
                             \o ExpectedJoin(ctxHist[t], c_sep2) \o c_end \o Message
                  /\ \A u \in Threads \ {t} :
                        \A n \in PushedBy(u) \ PushedBy(t) : ~Contains(line, n))

\* C11 witness: the logging thread has logged a line under its label "a"
\* while the other thread's stack holds a label of its own.
C11_Witness ==
    \E t \in Loggers, u \in Threads \ Loggers :
        /\ stmt[t].posted # <<>>
        /\ logContexts[t] = <<<<"a">>>>
        /\ logContexts[u] # <<>>
        /\ Contains(stmt[t].posted[1].line, c_sep2 \o <<"a">> \o c_end)
        /\ PushedBy(u) \ PushedBy(t) # {}

\* The concatenation of a sequence of strings.
RECURSIVE Flatten(_)
Flatten(fields) ==
    IF fields = <<>> THEN <<>> ELSE Head(fields) \o Flatten(Tail(fields))

\* Thread t has popped every label it pushed.
AllPopped(t) == Pushes(ctxHist[t], 0, Len(ctxHist[t])) = Pops(ctxHist[t], 0, Len(ctxHist[t]))

\* C14: the prefix of a statement that emits is, in this order, the channel
\* id, the begin separator, the time field, the separator, the calling
\* thread's name, a separator and a label for each label the thread has
\* pushed and not popped, outermost first, and the trailing marker; when
\* every label has been popped the trailing marker follows the name.
C14_PrefixOrder ==
    \A t \in Threads :
        (stmt[t].emit /\ pc[t] \in {"ctor_end", "dtor"}) =>
            /\ stmt[t].buf \in {TimeText, <<>>}
            /\ stmt[t].m_sstr =
                  Flatten(<<stmt[t].id, c_begin, stmt[t].buf, c_sep1, getThreadName(t),
                            ExpectedJoin(ctxHist[t], c_sep2), c_end>>)
            /\ AllPopped(t) =>
                  stmt[t].m_sstr =
                     Flatten(<<stmt[t].id, c_begin, stmt[t].buf, c_sep1,
                               getThreadName(t), c_end>>)

\* C14 witness: a thread that named itself "worker-1" and pushed "a" then
\* "b" has built a prefix that ends with its name, "a", "b" and the marker.
C14_Witness ==
    \E t \in Threads :
        /\ pc[t] = "dtor" /\ stmt[t].emit
        /\ getThreadName(t) = Worker1
        /\ logContexts[t] = <<<<"a">>, <<"b">>>>
        /\ Contains(stmt[t].m_sstr,
                    Flatten(<<c_sep1, Worker1, c_sep2, <<"a">>, c_sep2, <<"b">>, c_end>>))

\* C15: a statement whose strftime failed emits all the same: its time
\* field is empty, its prefix is the id, the separators, the thread name,
\* the context path and the trailing marker, and it goes on to post that
\* prefix with its message to the sink, once, like any other statement.
C15_TimeFailureStillEmits ==
    \A t \in Threads :
        stmt[t].strftime = 0 =>
            LET prefix == Flatten(<<stmt[t].id, c_begin, c_sep1, getThreadName(t),
                                    ExpectedJoin(ctxHist[t], c_sep2), c_end>>)
            IN /\ stmt[t].emit
               /\ stmt[t].buf = <<>>
               /\ pc[t] \in {"ctor_end", "dtor", "sink_lock", "sink_text", "sink_endl", "done"}
               /\ pc[t] \in {"ctor_end", "dtor"} => stmt[t].m_sstr = prefix
               /\ pc[t] \in {"sink_lock", "sink_text", "sink_endl", "done"} =>
                     /\ Len(stmt[t].posted) = 1
                     /\ stmt[t].posted[1].line = prefix \o Message

\* C15 witness: a statement whose strftime failed, logged by a named thread
\* under a label, has been posted and written out.
C15_Witness ==
    \E t \in Threads :
        /\ pc[t] = "done" /\ stmt[t].strftime = 0
        /\ Len(stmt[t].posted) = 1
        /\ logContexts[t] # <<>>
        /\ lastSet[t] = Worker1
        /\ Contains(stmt[t].posted[1].line, c_begin \o c_sep1)

\* C16 as claimed: whatever names a thread has or has not set, and whether
\* or not the platform accepted them, getThreadName() returns a string that
\* is neither null nor empty.
C16_Claim ==
    \A t \in Threads : getThreadName(t) # NullPtr /\ getThreadName(t) # <<>>

\* Thread t is inside a statement's constructor or an override operation.
InLockedRegion(t) == pc[t] \in {"ctor_lock", "ctor_fmt", "ctor_end", "ov_lock", "ov_write"}

\* C17: when no thread is inside a constructor or an override operation the
\* override mutex is free; a thread whose constructor has returned, on the
\* emit or on the suppress path, does not hold it until its statement is
\* over; and a constructor that waits for the mutex while every other
\* thread is outside those regions can take it.
C17_MutexFreeAfterConstruction ==
    /\ (\A t \in Threads : ~InLockedRegion(t)) => x_logOverride = "free"
    /\ \A t \in Threads :
          pc[t] \in {"dtor", "sink_lock", "sink_text", "sink_endl", "done"}
             => x_logOverride # t
    /\ \A u \in Threads :
          (pc[u] = "ctor_lock" /\ \A t \in Threads \ {u} : ~InLockedRegion(t))
             => ENABLED CtorDecide(u)

\* C17 witness: one statement was constructed with the decision to suppress
\* and is not yet completed, and another thread's constructor, entered
\* after that, has taken the mutex and decided to emit.
C17_Witness ==
    \E t, u \in Threads :
        /\ pc[t] = "dtor" /\ ~stmt[t].emit
        /\ pc[u] = "ctor_fmt" /\ stmt[u].emit
        /\ x_logOverride = u

\* A step of thread t's constructor: the lookup and decision, the formatting
\* with its calls of getThreadName and join, or the return.
CtorStep(t) == pc[t] \in {"ctor_lock", "ctor_fmt", "ctor_end"} /\ pc'[t] # pc[t]

\* C18: no step of a statement's constructor, on the emit or the suppress
\* path, changes the override table, the threshold, the sink, the calling
\* thread's name or the calling thread's context stack; in particular the
\* join it calls returns the same path before and after.
C18_ConstructionReadsOnly ==
    [][\A t \in Threads :
          CtorStep(t) =>
             /\ s_logOverride' = s_logOverride
             /\ g_logVerbosity' = g_logVerbosity
             /\ g_logPost' = g_logPost
             /\ osName'[t] = osName[t] /\ tlsName'[t] = tlsName[t]
             /\ getThreadName(t)' = getThreadName(t)
             /\ logContexts'[t] = logContexts[t]
             /\ join(logContexts[t], c_sep2)' = join(logContexts[t], c_sep2)]_vars

\* C18 witness: under a changed threshold a named thread with two labels on
\* its stack has constructed a statement that emits, its prefix built by
\* getThreadName and join, and name and stack are what they were.
C18_Witness ==
    \E t \in Threads :
        /\ pc[t] = "dtor" /\ stmt[t].emit /\ stmt[t].reads = {"clock", "getThreadName", "join"}
        /\ g_logVerbosity # InitialVerbosity
        /\ lastSet[t] = Worker1
        /\ Len(logContexts[t]) = 2
        /\ join(logContexts[t], c_sep2) = ExpectedJoin(ctxHist[t], c_sep2)

\* The step in which thread t's constructor evaluates the condition.
Tests(t) == pc[t] = "ctor_test" /\ pc'[t] # pc[t]

\* C19: the lookup and the test of one constructor lie in one critical
\* section of the override mutex; while a thread is between its lookup and
\* its test no override or clearOverride changes the table, so such an
\* operation is wholly before the section or wholly after it; and the
\* decision is the rule applied to that one table and the threshold read at
\* the test.
C19_DecisionFromOneSnapshot ==
    /\ [](\A t \in Threads : pc[t] \in {"ctor_find", "ctor_test"} => x_logOverride = t)
    /\ [](\A t \in Threads :
            pc[t] = "ctor_test" =>
               (stmt[t].it = "end" <=> stmt[t].info \notin DOMAIN s_logOverride))
    /\ [][\A t \in Threads :
            pc[t] \in {"ctor_find", "ctor_test"} => s_logOverride' = s_logOverride]_vars
    /\ [][\A t \in Threads :
            Tests(t) =>
               stmt'[t].emit = ShouldEmit(s_logOverride, stmt[t].info,
                                          stmt[t].m_verbosity, g_logVerbosity)]_vars

\* C19 witness: a constructor that found no entry has decided to emit by the
\* threshold rule while an override of its channel to false, begun by the
\* other thread, waits for the mutex: the decision is the rule on the table
\* before that operation.
C19_Witness ==
    \E t, u \in Threads :
        /\ pc[t] = "ctor_fmt" /\ stmt[t].emit /\ x_logOverride = t
        /\ stmt[t].info \notin DOMAIN s_logOverride
        /\ pc[u] = "ov_lock"
        /\ ovArg[u] = [info |-> stmt[t].info, op |-> "override", value |-> FALSE]

(* --------------------------- fair scheduling -------------------------- *)

\* A step of thread t inside a statement it has begun.
ThreadStep(t) ==
    \/ CtorDecide(t) \/ CtorFormat(t) \/ CtorUnlock(t) \/ Complete(t) \/ StmtEnd(t)
    \/ SinkLock(t) \/ SinkText(t) \/ SinkEndl(t)

\* The statements that are alive.
Alive == {t \in Threads : pc[t] \notin {"idle", "ov_lock", "ov_write"}}

\* The chunks a thread's statement that is alive has written so far.
Written(t) ==
    IF pc[t] = "sink_endl" THEN 1
    ELSE IF pc[t] = "done" /\ stmt[t].emit THEN 2
    ELSE 0

\* The recorded stream without the chunks of statements that are over.
Recent ==
    LET own(i) == {j \in i..Len(cerr) : cerr[j].th = cerr[i].th}
        kept == SelectSeq([i \in 1..Len(cerr) |-> i],
                          LAMBDA i : Cardinality(own(i)) <= Written(cerr[i].th))
    IN [j \in 1..Len(kept) |-> cerr[kept[j]]]

\* The history variables forget the statements that are over, so that the
\* threads can log again and again: the counters and the recorded stream go
\* back to what the statements still alive account for.
Forget ==
    /\ nStmts > Cardinality(Alive)
    /\ nStmts' = Cardinality(Alive)
    /\ emitDone' = Cardinality({t \in Threads : pc[t] = "done" /\ stmt[t].emit})
    /\ sinkCalls' = [s \in Sinks |->
                       IF s = "simpleDebugOut"
                       THEN Cardinality({t \in Threads : stmt[t].posted # <<>>})
                       ELSE 0]
    /\ cerr' = Recent
    /\ UNCHANGED <<platform, g_logVerbosity, s_logOverride, x_logOverride, s_lock,
                   g_logPost, stmtVars, nameVars, ctxVars, ret>>

\* Every thread logs again and again through the default sink.
NextLive ==
    \/ \E t \in Threads :
        \/ LogBegin(t, "NoteChannel", Unsigned(0, InitialVerbosity))
        \/ ThreadStep(t)
    \/ Forget

\* The scheduler lets every thread that can take a step take one eventually;
\* a thread that spins on the spinlock can take a step only while the lock
\* is free, and nothing makes the lock prefer one spinning thread.
SpecLive == InitCtx /\ [][NextLive]_vars /\ \A t \in Threads : WF_vars(ThreadStep(t))

\* C12 as claimed: under weak fairness of each thread's steps, a thread that
\* spins on the sink's spinlock eventually acquires it and its call returns.
C12_Claim == \A t \in Threads : (pc[t] = "sink_lock") ~> (pc[t] = "done")

\* C12 as amended: every thread that holds the spinlock finishes its line,
\* releases the lock and returns; and a thread spins for ever only if other
\* threads take the lock again and again, so a call returns as soon as the
\* other threads stop re-acquiring the lock.
C12_HolderReturnsWaiterNotBlocked ==
    /\ \A t \in Threads : (s_lock = t) ~> (pc[t] = "done" /\ s_lock # t)
    /\ \A t \in Threads :
          <>[](pc[t] = "sink_lock") => []<><<\E u \in Threads \ {t} : SinkLock(u)>>_vars

\* C12 witness: a thread spins on the spinlock while another thread, whose
\* earlier lines are over and forgotten, has taken the lock for a new line.
C12_Witness ==
    \E t, u \in Threads :
        /\ pc[t] = "sink_lock"
        /\ pc[u] = "sink_text" /\ s_lock = u
        /\ cerr = <<>>
        /\ nStmts = MaxStmts

====
